---- MODULE Spec2Model ----
(***************************************************************************)
(* The natural-language query agent of the technology risk register:       *)
(* chat endpoint -> risk_sme_agent -> generate_llm_code ->                 *)
(* execute_generated_code (with one corrective retry) -> ChatResponse.     *)
(*                                                                         *)
(* Each worker thread of the server handles one request at a time; the     *)
(* request's call frames are the worker-indexed variables.  sys.stdout and *)
(* the database are process-wide.                                          *)
(***************************************************************************)
EXTENDS Integers, Sequences, FiniteSets, TLC

(***************************************************************************)
(* Bounds of the model                                                     *)
(***************************************************************************)
\* worker threads of the server's thread pool
NumWorkers == 2
\* requests in flight at once under SpecConc
MaxInFlight == 2
\* chunks a capture buffer can hold
MaxBuf == 2

Workers == 1..NumWorkers

(***************************************************************************)
(* Program constants                                                       *)
(***************************************************************************)
\* ChatRequest.question: Field(min_length=1, max_length=1000)
QuestionMinLength == 1
QuestionMaxLength == 1000
\* "Keep answer_rows to reasonable size (max 20 items ...)"
RowCap == 20

(***************************************************************************)
(* Python values.  Every value is a record of the same shape so that any   *)
(* two values can be compared: t is the type, s the text of a string (or   *)
(* a label of an object), n the integer value or the length of a list.     *)
(***************************************************************************)
Val(t, s, n) == [t |-> t, s |-> s, n |-> n]
None == Val("none", "", 0)
\* the absence of a key in a dict
Unbound == Val("unbound", "", 0)
Str(s) == Val("str", s, 0)
PyInt(n) == Val("int", "", n)
\* a list of n row dicts
RowList(n) == Val("list", "", n)
\* a dict of n keys
Dict(n) == Val("dict", "", n)
\* any other object (an ORM instance, a module, a file handle)
Obj(s) == Val("obj", s, 0)

\* bool(v)
Truthy(v) ==
    CASE v.t = "none" -> FALSE
      [] v.t = "unbound" -> FALSE
      [] v.t = "str" -> v.s # ""
      [] v.t = "int" -> v.n # 0
      [] v.t = "list" -> v.n > 0
      [] v.t = "dict" -> v.n > 0
      [] OTHER -> TRUE

\* a or b
PyOr(a, b) == IF Truthy(a) THEN a ELSE b

\* str(v): a string is itself, anything else is its printed form
PyStr(v) ==
    CASE v.t = "str" -> v
      [] v.t = "list" -> Val("str", "[rows]", v.n)
      [] v.t = "dict" -> Val("str", "{json}", v.n)
      [] v.t = "int" -> Val("str", "int", v.n)
      [] v.t = "none" -> Str("None")
      [] OTHER -> Val("str", "<object>", 0)

\* d.get(k, default) and d.get(k)
DictGetOr(d, k, default) == IF d[k] = Unbound THEN default ELSE d[k]
DictGet(d, k) == DictGetOr(d, k, None)

(***************************************************************************)
(* Questions: run-length encoded strings, <<char, count>> runs, so that a  *)
(* question of 1001 characters is a small value.                           *)
(***************************************************************************)
RECURSIVE RunLen(_)
RunLen(q) == IF q = <<>> THEN 0 ELSE Head(q)[2] + RunLen(Tail(q))

IsSpaceRun(r) == r[1] = " "

RECURSIVE LStripRuns(_)
LStripRuns(q) ==
    IF q = <<>> THEN <<>>
    ELSE IF IsSpaceRun(Head(q)) THEN LStripRuns(Tail(q)) ELSE q

RECURSIVE RStripRuns(_)
RStripRuns(q) ==
    IF q = <<>> THEN <<>>
    ELSE IF IsSpaceRun(q[Len(q)]) THEN RStripRuns(SubSeq(q, 1, Len(q) - 1)) ELSE q

\* str.strip() on a question
StripRuns(q) == RStripRuns(LStripRuns(q))

\* the questions a client may send
Questions ==
    { <<>>,
      << <<" ", 1>> >>,
      << <<" ", 2>>, <<"a", 1>> >>,
      << <<"a", 1000>> >>,
      << <<"a", 1001>> >>,
      << <<" ", 1001>> >> }

\* the questions clients send while requests run concurrently
ConcurrentQuestions == { << <<" ", 1>> >>, << <<" ", 2>>, <<"a", 1>> >> }

(***************************************************************************)
(* LLM output and program text: a text is a sequence of tokens, a token is *)
(* a marker, white space, prose, or one program statement.                 *)
(***************************************************************************)
OPEN == "<execute_python>"
OPEN_UC == "<EXECUTE_PYTHON>"
CLOSE == "</execute_python>"
WS == " "
PROSE == "Here is the code:"

\* re.IGNORECASE: the markers match in any case
IsOpen(t) == t \in {OPEN, OPEN_UC}
IsClose(t) == t = CLOSE

\* name = value statements
Assign ==
    ("STATUS = 'success'" :> <<"STATUS", Str("success")>>) @@
    ("STATUS = 'no_results'" :> <<"STATUS", Str("no_results")>>) @@
    ("STATUS = 'invalid_request'" :> <<"STATUS", Str("invalid_request")>>) @@
    ("STATUS = 'error'" :> <<"STATUS", Str("error")>>) @@
    ("STATUS = 'partial'" :> <<"STATUS", Str("partial")>>) @@
    ("STATUS = 42" :> <<"STATUS", PyInt(42)>>) @@
    ("STATUS = None" :> <<"STATUS", None>>) @@
    ("answer_text = 'Found risks'" :> <<"answer_text", Str("Found risks")>>) @@
    ("answer_text = ''" :> <<"answer_text", Str("")>>) @@
    ("answer_rows = []" :> <<"answer_rows", RowList(0)>>) @@
    ("answer_rows = rows(3)" :> <<"answer_rows", RowList(3)>>) @@
    ("answer_rows = rows(20)" :> <<"answer_rows", RowList(RowCap)>>) @@
    ("answer_rows = rows(21)" :> <<"answer_rows", RowList(RowCap + 1)>>) @@
    ("answer_rows = session.query(Risk).all()" :> <<"answer_rows", Obj("orm rows")>>) @@
    ("answer_json = {}" :> <<"answer_json", Dict(0)>>) @@
    ("answer_json = {'total': 3}" :> <<"answer_json", Dict(1)>>) @@
    ("tmp = 1" :> <<"tmp", PyInt(1)>>)

\* the other statements
S_GLOBAL == "global gtmp; gtmp = 1"
S_USE_TMP == "x = tmp"
S_USE_GTMP == "x = gtmp"
S_PRINT == "print('LOG')"
S_RAISE == "raise ValueError"
S_EXIT == "raise SystemExit"
S_IMPORT == "import os"
S_OPEN == "fh = open('f')"
S_ADD == "session.add(Risk())"
S_COMMIT == "session.commit()"
S_QUERY == "session.query(Risk).count()"

Statements ==
    DOMAIN Assign \cup
    {S_GLOBAL, S_USE_TMP, S_USE_GTMP, S_PRINT, S_RAISE, S_EXIT, S_IMPORT,
     S_OPEN, S_ADD, S_COMMIT, S_QUERY, WS}

\* the names a program can bind in its local scope
LocalNames == {"answer_text", "answer_rows", "answer_json", "STATUS", "tmp", "x", "os", "fh"}
\* the names a program can bind through a global declaration
ProgramGlobalNames == {"gtmp"}

IsSpaceTok(t) == t = WS

RECURSIVE LStrip(_)
LStrip(s) ==
    IF s = <<>> THEN <<>>
    ELSE IF IsSpaceTok(Head(s)) THEN LStrip(Tail(s)) ELSE s

RECURSIVE RStrip(_)
RStrip(s) ==
    IF s = <<>> THEN <<>>
    ELSE IF IsSpaceTok(s[Len(s)]) THEN RStrip(SubSeq(s, 1, Len(s) - 1)) ELSE s

\* str.strip() on a text
Strip(s) == RStrip(LStrip(s))

\* re.search(r"<execute_python>(.*?)</execute_python>", text, DOTALL | IGNORECASE):
\* the leftmost start marker that has an end marker after it, and the
\* nearest end marker after that start marker (non-greedy group)
MatchStart(text) ==
    LET starts == {i \in 1..Len(text) :
                     IsOpen(text[i]) /\ \E j \in (i + 1)..Len(text) : IsClose(text[j])}
    IN IF starts = {} THEN 0 ELSE CHOOSE i \in starts : \A k \in starts : i <= k

MatchEnd_greedy(text, i) ==
    CHOOSE j \in (i + 1)..Len(text) :
        IsClose(text[j]) /\ \A k \in (i + 1)..Len(text) : IsClose(text[k]) => j >= k
MatchEnd(text, i) ==
    CHOOSE j \in (i + 1)..Len(text) :
        IsClose(text[j]) /\ \A k \in (i + 1)..Len(text) : IsClose(text[k]) => j <= k

\* _extract_execute_block raises RuntimeError on "not text"
ExtractRaises(text) == text = <<>>

\* _extract_execute_block: m.group(1).strip() if m else text.strip()
ExtractExecuteBlock(text) ==
    LET i == MatchStart(text)
    IN IF i # 0 THEN Strip(SubSeq(text, i + 1, MatchEnd(text, i) - 1))
       ELSE Strip(text)

\* the program inside its markers, as the prompt asks for it
Wrap(p) == <<OPEN>> \o p \o <<CLOSE>>

(***************************************************************************)
(* The texts the LLM service may answer with.                              *)
(***************************************************************************)
T_GOOD == Wrap(<<"answer_text = 'Found risks'", "answer_rows = rows(3)", "STATUS = 'success'", S_PRINT>>)
T_NO_RESULTS == Wrap(<<"answer_text = 'Found risks'", "answer_rows = []", "STATUS = 'no_results'">>)
T_INVALID == <<PROSE, OPEN_UC, WS, "answer_text = 'Found risks'", "STATUS = 'invalid_request'", WS, CLOSE, PROSE>>
T_STATUS_ERROR == Wrap(<<"STATUS = 'error'">>)
T_ROWS_ONLY == Wrap(<<"answer_rows = rows(20)", "STATUS = 'success'">>)
T_TOO_MANY == Wrap(<<"answer_rows = rows(21)", "STATUS = 'success'">>)
T_EMPTY_TEXT == <<>>
T_BLANK_TEXT == <<WS>>
T_BINDS_NOTHING == Wrap(<<S_QUERY>>)
T_PROSE_ONLY == <<PROSE>>
T_NO_TAGS == <<"answer_text = 'Found risks'", "STATUS = 'success'">>
T_UNCLOSED == <<OPEN, "STATUS = 'success'">>
T_UNDEFINED_NAME == Wrap(<<S_USE_TMP>>)
T_UNDEFINED_GLOBAL == Wrap(<<S_USE_GTMP>>)
T_BIND_THEN_RAISE == Wrap(<<"tmp = 1", S_GLOBAL, S_RAISE>>)
T_BIND_NO_RAISE == Wrap(<<"tmp = 1", S_GLOBAL, "STATUS = 'success'">>)
T_STATUS_THEN_RAISE == Wrap(<<"STATUS = 'success'", "answer_text = 'Found risks'", S_PRINT, S_RAISE>>)
T_SYSTEM_EXIT == Wrap(<<S_PRINT, S_EXIT>>)
T_PRINTS == Wrap(<<S_PRINT>>)
T_PRINT_THEN_RAISE == Wrap(<<S_PRINT, S_RAISE>>)
T_WRITES_DB == Wrap(<<S_ADD, S_COMMIT, "STATUS = 'success'">>)
T_ADD_NO_COMMIT == Wrap(<<S_ADD, "STATUS = 'success'">>)
T_IMPORTS == Wrap(<<S_IMPORT, S_OPEN>>)
T_STATUS_INT == Wrap(<<"STATUS = 42">>)
T_STATUS_NONE == Wrap(<<"STATUS = None", "answer_text = 'Found risks'">>)
T_STATUS_FREE == Wrap(<<"STATUS = 'partial'", "answer_text = ''", "answer_json = {}">>)
T_ROWS_OBJECTS == Wrap(<<"answer_rows = session.query(Risk).all()", "STATUS = 'success'">>)
T_JSON_ONLY == Wrap(<<"answer_json = {'total': 3}", "STATUS = 'success'">>)

LLMTexts ==
    { T_GOOD, T_NO_RESULTS, T_INVALID, T_STATUS_ERROR, T_ROWS_ONLY, T_TOO_MANY,
      T_EMPTY_TEXT, T_BLANK_TEXT, T_BINDS_NOTHING, T_PROSE_ONLY, T_NO_TAGS,
      T_UNCLOSED, T_UNDEFINED_NAME, T_UNDEFINED_GLOBAL, T_BIND_THEN_RAISE,
      T_BIND_NO_RAISE, T_STATUS_THEN_RAISE, T_SYSTEM_EXIT, T_WRITES_DB,
      T_ADD_NO_COMMIT, T_IMPORTS, T_PRINTS, T_PRINT_THEN_RAISE, T_STATUS_INT, T_STATUS_NONE, T_STATUS_FREE,
      T_ROWS_OBJECTS, T_JSON_ONLY }

\* the texts the LLM answers with while requests run concurrently
ConcurrentTexts == { T_PRINTS, T_PRINT_THEN_RAISE, T_EMPTY_TEXT }

(***************************************************************************)
(* The namespace of the executed program                                   *)
(***************************************************************************)
\* the keys of SAFE_GLOBALS
SafeGlobalNames ==
    { "session", "Risk", "RiskLogEntry", "DropdownValue", "and_", "or_", "func",
      "date", "datetime", "timedelta", "re", "json", "math", "statistics",
      "len", "str", "int", "float", "bool", "list", "dict", "set", "tuple",
      "min", "max", "sum", "sorted", "any", "all", "enumerate", "zip", "range",
      "print", "user_request" }

\* names of the builtins module that the statements of the model use
BuiltinNames == { "__import__", "open", "SystemExit", "ValueError", "print" }

\* exec(code, globals, locals): "if the globals dictionary does not contain a
\* value for the key __builtins__, a reference to the built-in module
\* builtins is inserted under that key"
ExecGlobals(G) == G \cup {"__builtins__"}

\* SAFE_LOCALS: dict[str, object] = {}
EmptyLocals == [n \in LocalNames |-> Unbound]

\* the SAFE_LOCALS of a call, given the dict the previous call left behind
NewLocals_shared(prev) == prev
NewLocals(prev) == EmptyLocals

\* the SAFE_GLOBALS of a call, given the dict the previous call left behind
NewGlobals_shared(prev) == prev \cup SafeGlobalNames
NewGlobals(prev) == SafeGlobalNames

\* name lookup of the executed code: locals, globals, then builtins
Resolves(L, G, name) ==
    \/ name \in LocalNames /\ L[name] # Unbound
    \/ name \in G
    \/ "__builtins__" \in G /\ name \in BuiltinNames

\* the program compiles when every token is a statement
Compiles(code) == \A i \in 1..Len(code) : code[i] \in Statements

\* One statement run with locals L and globals G: exc is the exception it
\* raises ("" for none), base tells a BaseException that "except Exception"
\* does not catch, out is what it prints, db the session operation it makes.
StmtResult(stmt, L, G) ==
    LET ok == [exc |-> "", base |-> FALSE, L |-> L, G |-> G, out |-> FALSE, db |-> "none"]
        name_error == [ok EXCEPT !.exc = "NameError"]
        bind(n, v) == [ok EXCEPT !.L = [L EXCEPT ![n] = v]]
    IN CASE stmt \in DOMAIN Assign ->
              IF stmt = "answer_rows = session.query(Risk).all()" /\ ~Resolves(L, G, "session")
              THEN name_error
              ELSE bind(Assign[stmt][1], Assign[stmt][2])
         [] stmt = S_GLOBAL -> [ok EXCEPT !.G = G \cup {"gtmp"}]
         [] stmt = S_USE_TMP ->
              IF Resolves(L, G, "tmp") THEN bind("x", L["tmp"]) ELSE name_error
         [] stmt = S_USE_GTMP ->
              IF Resolves(L, G, "gtmp") THEN bind("x", PyInt(1)) ELSE name_error
         [] stmt = S_PRINT ->
              IF Resolves(L, G, "print") THEN [ok EXCEPT !.out = TRUE] ELSE name_error
         [] stmt = S_RAISE ->
              IF Resolves(L, G, "ValueError") THEN [ok EXCEPT !.exc = "ValueError"] ELSE name_error
         [] stmt = S_EXIT ->
              IF Resolves(L, G, "SystemExit")
              THEN [ok EXCEPT !.exc = "SystemExit", !.base = TRUE]
              ELSE name_error
         [] stmt = S_IMPORT ->
              IF Resolves(L, G, "__import__") THEN bind("os", Obj("module os"))
              ELSE [ok EXCEPT !.exc = "ImportError"]
         [] stmt = S_OPEN ->
              IF Resolves(L, G, "open") THEN bind("fh", Obj("file")) ELSE name_error
         [] stmt = S_ADD ->
              IF Resolves(L, G, "session") THEN [ok EXCEPT !.db = "add"] ELSE name_error
         [] stmt = S_COMMIT ->
              IF Resolves(L, G, "session") THEN [ok EXCEPT !.db = "commit"] ELSE name_error
         [] stmt = S_QUERY ->
              IF Resolves(L, G, "session") THEN ok ELSE name_error
         [] OTHER -> ok

\* traceback.format_exc(): the text ends with the exception raised
FormatExc_message_only(exc) == IF exc = "ValueError" THEN Str("") ELSE Str(exc)
FormatExc(exc) == Str(exc)

(***************************************************************************)
(* Streams and captured output                                             *)
(***************************************************************************)
\* the stream installed when the process started
OrigStream == <<"orig", 0>>
\* the io.StringIO() of the call worker w is in
BufStream(w) == <<"buf", w>>
\* a buffer whose call has returned: nothing reads it again
DeadStream == <<"dead", 0>>

\* one write to a stream: the text, the worker whose request wrote it, and
\* whether the executed program or the pipeline (its diagnostics) wrote it
Chunk(txt, w, src) == [txt |-> txt, by |-> w, src |-> src]
NL(w, src) == Chunk("\n", w, src)

IsSpaceChunk(c) == c.txt \in {"\n", " "}

RECURSIVE LStripChunks(_)
LStripChunks(s) ==
    IF s = <<>> THEN <<>>
    ELSE IF IsSpaceChunk(Head(s)) THEN LStripChunks(Tail(s)) ELSE s

RECURSIVE RStripChunks(_)
RStripChunks(s) ==
    IF s = <<>> THEN <<>>
    ELSE IF IsSpaceChunk(s[Len(s)]) THEN RStripChunks(SubSeq(s, 1, Len(s) - 1)) ELSE s

\* _stdout_buf.getvalue().strip()
StripChunks(s) == RStripChunks(LStripChunks(s))

\* an optional text (code: str | None)
NoText == [some |-> FALSE, text |-> <<>>]
Text(s) == [some |-> TRUE, text |-> s]

(***************************************************************************)
(* State                                                                   *)
(***************************************************************************)
VARIABLES
    \* process-wide
    sys_stdout,     \* sys.stdout: the stream print() writes to
    db_risks,       \* the committed rows of the risks table
    env,            \* the deployment: thread-pool width, what the LLM answers, what clients ask
    last_ns,        \* the SAFE_LOCALS and SAFE_GLOBALS the last finished call left behind
    \* the request a worker is handling
    pc,             \* where the worker is in the pipeline
    question,       \* ChatRequest.question
    show_code,      \* ChatRequest.show_code
    session_new,    \* db: objects added to the request's Session, not yet committed
    \* risk_sme_agent
    attempt,        \* 1 on the first generation, 2 inside the retry block
    prompt,         \* the prompt handed to generate_llm_code
    content,        \* the raw LLM text handed to execute_generated_code
    full_content,   \* the raw texts retained by the agent
    exec_res,       \* the dict returned by execute_generated_code
    \* counters of the request
    gen_calls,      \* calls of generate_llm_code
    llm_calls,      \* calls of client.messages.create
    exec_runs,      \* calls of exec()
    outcome,        \* how each exec() ended: "ok", "exception", "base_exception"
    \* execute_generated_code
    code,           \* the extracted program
    ip,             \* the next statement of the program
    user_request,   \* SAFE_GLOBALS["user_request"]
    SAFE_LOCALS,    \* the locals dict of the executed program
    SAFE_GLOBALS,   \* the keys of the globals dict of the executed program
    stdout_buf,     \* _stdout_buf: the contents of the capture buffer
    old_stdout,     \* _old_stdout
    err_text,       \* err_text
    pending,        \* an exception "except Exception" did not catch is in flight
    \* the outcome of the request
    http,           \* "" while in progress, else the HTTP status ("unhandled": no handler caught)
    detail,         \* HTTPException.detail
    response,       \* the ChatResponse
    \* reference values
    dropdown_values, \* the dropdown_values table: the state of each row
    schema_blocks,  \* the dropdowns of the schema block of each generation call
    \* RiskService
    risks,            \* the risks table: the rating fields of each row
    risk_log_entries  \* the risk_log_entries table

globalVars == <<sys_stdout, db_risks, env, last_ns>>
reqVars == <<question, show_code>>
agentVars == <<attempt, prompt, content, full_content, exec_res>>
countVars == <<gen_calls, llm_calls, exec_runs, outcome>>
nsVars == <<SAFE_LOCALS, SAFE_GLOBALS>>
execVars == <<code, ip, user_request, stdout_buf, old_stdout, err_text, pending>>
outVars == <<http, detail, response>>

refVars == <<dropdown_values, schema_blocks>>
riskVars == <<risks, risk_log_entries>>
vars == <<globalVars, refVars, riskVars, pc, reqVars, session_new, agentVars, countVars, nsVars, execVars, outVars>>

NoQuestion == <<>>
NoPrompt == [kind |-> "none", question |-> NoQuestion, error |-> None, code |-> <<>>]
NoExecRes ==
    [code |-> <<>>, stdout |-> <<>>, error |-> None, answer |-> None,
     status |-> None, answer_rows |-> None]
NoResponse ==
    [answer |-> None, status |-> None, answer_rows |-> None, code |-> NoText,
     error |-> None, execution_log |-> <<>>]

\* the rows of the risks table before any request
InitialRisks == {"TR-2025-001"}
\* the row a program adds with session.add(Risk())
AddedRisk == "TR-2025-002"

(***************************************************************************)
(* Reference values: the dropdown_values table and its snapshot.           *)
(***************************************************************************)
\* the rows the table can hold, by id
DropdownCatalogue ==
    << [category |-> "risk_status", value |-> "Closed", display_order |-> 3],
       [category |-> "risk_status", value |-> "Active", display_order |-> 1],
       [category |-> "risk_category", value |-> "Cybersecurity", display_order |-> 1] >>
DropdownIds == DOMAIN DropdownCatalogue

\* the table after seeding: a row is "absent", "active" or "inactive"
SeededDropdowns == [i \in DropdownIds |-> IF i = 1 THEN "absent" ELSE "active"]

\* the ids of a set of rows by ascending display_order
RECURSIVE ByDisplayOrder(_)
ByDisplayOrder(ids) ==
    IF ids = {} THEN <<>>
    ELSE LET first == CHOOSE i \in ids :
                         \A k \in ids :
                            \/ DropdownCatalogue[i].display_order < DropdownCatalogue[k].display_order
                            \/ /\ DropdownCatalogue[i].display_order = DropdownCatalogue[k].display_order
                               /\ i <= k
         IN <<first>> \o ByDisplayOrder(ids \ {first})

\* get_dropdown_values: the rows with is_active, grouped by category, each
\* group in display order
get_dropdown_values_unfiltered(table) ==
    LET rows == {i \in DropdownIds : table[i] # "absent"}
        categories == {DropdownCatalogue[i].category : i \in rows}
    IN [c \in categories |->
          LET ids == ByDisplayOrder({i \in rows : DropdownCatalogue[i].category = c})
          IN [k \in 1..Len(ids) |-> DropdownCatalogue[ids[k]].value]]
get_dropdown_values(table) ==
    LET rows == {i \in DropdownIds : table[i] = "active"}
        categories == {DropdownCatalogue[i].category : i \in rows}
    IN [c \in categories |->
          LET ids == ByDisplayOrder({i \in rows : DropdownCatalogue[i].category = c})
          IN [k \in 1..Len(ids) |-> DropdownCatalogue[ids[k]].value]]

\* a row is inserted (is_active defaults to True), deactivated, activated
AddDropdownValue(i) ==
    /\ dropdown_values[i] = "absent"
    /\ dropdown_values' = [dropdown_values EXCEPT ![i] = "active"]
    /\ UNCHANGED <<riskVars, globalVars, schema_blocks, pc, reqVars, session_new, agentVars,
                   countVars, nsVars, execVars, outVars>>

DeactivateDropdownValue(i) ==
    /\ dropdown_values[i] = "active"
    /\ dropdown_values' = [dropdown_values EXCEPT ![i] = "inactive"]
    /\ UNCHANGED <<riskVars, globalVars, schema_blocks, pc, reqVars, session_new, agentVars,
                   countVars, nsVars, execVars, outVars>>

ActivateDropdownValue(i) ==
    /\ dropdown_values[i] = "inactive"
    /\ dropdown_values' = [dropdown_values EXCEPT ![i] = "active"]
    /\ UNCHANGED <<riskVars, globalVars, schema_blocks, pc, reqVars, session_new, agentVars,
                   countVars, nsVars, execVars, outVars>>

(***************************************************************************)
(* RiskService: the risks and risk_log_entries tables and the operations   *)
(* on them.  Every operation is one call on a Session of its own: what it  *)
(* changed before an exception is never committed.                         *)
(***************************************************************************)
\* the most risk ids of one year the table holds
MaxRiskSeq == 2
\* the most rows the risk_log_entries table holds
MaxLogEntries == 1
\* datetime.now().year, the same for the whole run
CurrentYear == 2025

\* Python's None in a text column, and a field a pydantic model leaves unset
PyNone == "<None>"
Unset == "<unset>"
\* the same two for a risk id and for a net exposure
NoRiskId == <<"None", 0, 0>>
NoExposure == <<"None", 0>>
UnsetExposure == <<"unset", 0>>

\* f"TR-{year}-{sequence:03d}": the zero padding keeps distinct numbers distinct
RiskId(year, sequence) == <<"TR", year, sequence>>
\* risk_id LIKE "TR-{year}-%"
Like(risk_id, year) == risk_id[1] = "TR" /\ risk_id[2] = year
RiskIds == {RiskId(CurrentYear, n) : n \in 1..MaxRiskSeq}

NoRisk ==
    [present |-> FALSE, business_disruption_impact_rating |-> PyNone,
     business_disruption_likelihood_rating |-> PyNone,
     business_disruption_net_exposure |-> NoExposure]

\* the ratings and the net exposure callers put into RiskCreate and RiskUpdate
RiskImpacts == {"Low", "Catastrophic"}
RiskLikelihoods == {"Remote"}
SuppliedExposure == <<"Critical", 16>>
\* the new impact rating callers put into RiskLogEntryCreate and RiskLogEntryUpdate;
\* they leave the new likelihood rating out
LogImpacts == {"Major"}

impact_values == [Low |-> 1, Moderate |-> 2, Major |-> 3, Catastrophic |-> 4]
likelihood_values == [Remote |-> 1, Unlikely |-> 2, Possible |-> 3, Probable |-> 4]
matrix ==
    (<<1, 1>> :> 1) @@ (<<1, 2>> :> 2) @@ (<<1, 3>> :> 3) @@ (<<1, 4>> :> 5) @@
    (<<2, 1>> :> 4) @@ (<<2, 2>> :> 6) @@ (<<2, 3>> :> 7) @@ (<<2, 4>> :> 9) @@
    (<<3, 1>> :> 8) @@ (<<3, 2>> :> 10) @@ (<<3, 3>> :> 11) @@ (<<3, 4>> :> 13) @@
    (<<4, 1>> :> 12) @@ (<<4, 2>> :> 14) @@ (<<4, 3>> :> 15) @@ (<<4, 4>> :> 16)

\* d.get(k, default)
GetOr(d, k, default) == IF k \in DOMAIN d THEN d[k] ELSE default

\* Risk.calculate_net_exposure: the value it stores in business_disruption_net_exposure
calculate_net_exposure(impact_rating, likelihood_rating) ==
    LET impact_val == GetOr(impact_values, impact_rating, 1)
        likelihood_val == GetOr(likelihood_values, likelihood_rating, 1)
        exposure_number == GetOr(matrix, <<impact_val, likelihood_val>>, 1)
        category ==
            IF exposure_number <= 4 THEN "Low"
            ELSE IF exposure_number <= 8 THEN "Medium"
            ELSE IF exposure_number <= 12 THEN "High"
            ELSE "Critical"
    IN <<category, exposure_number>>

\* the Risk after calculate_net_exposure()
Recalculated(risk) ==
    [risk EXCEPT !.business_disruption_net_exposure =
        calculate_net_exposure(risk.business_disruption_impact_rating,
                               risk.business_disruption_likelihood_rating)]

\* the parent Risk after RiskLogEntry.update_parent_risk_rating()
update_parent_risk_rating_no_recalculation(entry, risk) ==
    IF entry.entry_status = "Approved"
    THEN LET r1 == IF entry.new_impact_rating # PyNone
                   THEN [risk EXCEPT !.business_disruption_impact_rating = entry.new_impact_rating]
                   ELSE risk
         IN IF entry.new_likelihood_rating # PyNone
            THEN [r1 EXCEPT !.business_disruption_likelihood_rating = entry.new_likelihood_rating]
            ELSE r1
    ELSE risk
update_parent_risk_rating(entry, risk) ==
    IF entry.entry_status = "Approved"
    THEN LET r1 == IF entry.new_impact_rating # PyNone
                   THEN [risk EXCEPT !.business_disruption_impact_rating = entry.new_impact_rating]
                   ELSE risk
             r2 == IF entry.new_likelihood_rating # PyNone
                   THEN [r1 EXCEPT !.business_disruption_likelihood_rating = entry.new_likelihood_rating]
                   ELSE r1
         IN IF entry.new_impact_rating # PyNone \/ entry.new_likelihood_rating # PyNone
            THEN Recalculated(r2)
            ELSE r2
    ELSE risk

\* the rows of the risks table
StoredRiskIds == {id \in RiskIds : risks[id].present}

\* _generate_risk_id over a table holding the ids stored
_generate_risk_id(stored) ==
    LET year == CurrentYear
        existing_count == Cardinality({id \in stored : Like(id, year)})
        sequence == existing_count + 1
    IN RiskId(year, sequence)

\* f"LOG-{risk_id}-{existing_count + 1:03d}" over the rows of the log
LogEntryId(entries, risk_id) ==
    LET existing_count == Cardinality({e \in entries : e.risk_id = risk_id})
    IN <<"LOG", risk_id, existing_count + 1>>
LogEntryIds == {e.log_entry_id : e \in risk_log_entries}
\* get_risk_log_entry
get_risk_log_entry(log_entry_id) == {e \in risk_log_entries : e.log_entry_id = log_entry_id}

\* the RiskLogEntry _create_log_entry and create_risk_log_entry add to the session
NewLogEntry(entries, risk_id, entry_status, new_impact_rating, new_likelihood_rating) ==
    [log_entry_id |-> LogEntryId(entries, risk_id), risk_id |-> risk_id,
     entry_status |-> entry_status, new_impact_rating |-> new_impact_rating,
     new_likelihood_rating |-> new_likelihood_rating]

chatVars == <<globalVars, refVars, pc, reqVars, session_new, agentVars, countVars, nsVars,
              execVars, outVars>>

\* create_risk: the risk is committed before its "Risk Creation" log entry
create_risk(risk_id_in, impact_rating, likelihood_rating, net_exposure) ==
    LET risk_id == IF risk_id_in = NoRiskId THEN _generate_risk_id(StoredRiskIds) ELSE risk_id_in
        db_risk == Recalculated(
            [present |-> TRUE, business_disruption_impact_rating |-> impact_rating,
             business_disruption_likelihood_rating |-> likelihood_rating,
             business_disruption_net_exposure |-> net_exposure])
        log_entry == NewLogEntry(risk_log_entries, risk_id, "Draft",
                                 db_risk.business_disruption_impact_rating,
                                 db_risk.business_disruption_likelihood_rating)
    IN /\ risk_id \in RiskIds
       /\ Cardinality(risk_log_entries) < MaxLogEntries
       /\ IF risk_id \in StoredRiskIds
          THEN \* IntegrityError on the primary key: nothing is committed
               UNCHANGED riskVars
          ELSE /\ risks' = [risks EXCEPT ![risk_id] = db_risk]
               /\ risk_log_entries' =
                    IF log_entry.log_entry_id \in LogEntryIds
                    THEN risk_log_entries   \* the second commit fails, the first stays
                    ELSE risk_log_entries \cup {log_entry}
       /\ UNCHANGED chatVars

\* update_risk: the fields of RiskUpdate that are set, then the recalculation
update_risk(risk_id, impact_rating, likelihood_rating, net_exposure) ==
    LET old == risks[risk_id]
        set == [old EXCEPT
                  !.business_disruption_impact_rating =
                      IF impact_rating = Unset THEN @ ELSE impact_rating,
                  !.business_disruption_likelihood_rating =
                      IF likelihood_rating = Unset THEN @ ELSE likelihood_rating,
                  !.business_disruption_net_exposure =
                      IF net_exposure = UnsetExposure THEN @ ELSE net_exposure]
        db_risk == Recalculated(set)
        log_entry == NewLogEntry(risk_log_entries, risk_id, "Approved",
                                 db_risk.business_disruption_impact_rating,
                                 db_risk.business_disruption_likelihood_rating)
    IN /\ risk_id \in StoredRiskIds
       /\ IF db_risk.business_disruption_net_exposure # old.business_disruption_net_exposure
          THEN /\ Cardinality(risk_log_entries) < MaxLogEntries
               /\ IF log_entry.log_entry_id \in LogEntryIds
                  THEN \* IntegrityError: the one commit fails as a whole
                       UNCHANGED riskVars
                  ELSE /\ risks' = [risks EXCEPT ![risk_id] = db_risk]
                       /\ risk_log_entries' = risk_log_entries \cup {log_entry}
          ELSE /\ risks' = [risks EXCEPT ![risk_id] = db_risk]
               /\ UNCHANGED risk_log_entries
       /\ UNCHANGED chatVars

\* delete_risk: the log entries go with the risk (cascade="all, delete-orphan")
delete_risk(risk_id) ==
    /\ risk_id \in StoredRiskIds
    /\ risks' = [risks EXCEPT ![risk_id] = NoRisk]
    /\ risk_log_entries' = {e \in risk_log_entries : e.risk_id # risk_id}
    /\ UNCHANGED chatVars

\* create_risk_log_entry: nothing requires the risk to exist
create_risk_log_entry(risk_id, entry_status, new_impact_rating, new_likelihood_rating) ==
    LET db_log_entry == NewLogEntry(risk_log_entries, risk_id, entry_status,
                                    new_impact_rating, new_likelihood_rating)
    IN /\ Cardinality(risk_log_entries) < MaxLogEntries
       /\ db_log_entry.log_entry_id \notin LogEntryIds   \* else IntegrityError
       /\ risk_log_entries' = risk_log_entries \cup {db_log_entry}
       /\ UNCHANGED <<risks, chatVars>>

\* update_risk_log_entry: only the fields of RiskLogEntryUpdate that are set
update_risk_log_entry(log_entry_id, new_impact_rating, new_likelihood_rating) ==
    \E e \in get_risk_log_entry(log_entry_id) :
        LET db_log_entry ==
                [e EXCEPT
                   !.new_impact_rating =
                       IF new_impact_rating = Unset THEN @ ELSE new_impact_rating,
                   !.new_likelihood_rating =
                       IF new_likelihood_rating = Unset THEN @ ELSE new_likelihood_rating]
        IN /\ db_log_entry # e
           /\ risk_log_entries' = (risk_log_entries \ {e}) \cup {db_log_entry}
           /\ UNCHANGED <<risks, chatVars>>

\* approve_risk_log_entry: an entry without its risk raises AttributeError before the commit
approve_risk_log_entry(log_entry_id) ==
    \E e \in get_risk_log_entry(log_entry_id) :
        LET db_log_entry == [e EXCEPT !.entry_status = "Approved"]
        IN /\ e.risk_id \in StoredRiskIds
           /\ risks' = [risks EXCEPT ![e.risk_id] = update_parent_risk_rating(db_log_entry, @)]
           /\ risk_log_entries' = (risk_log_entries \ {e}) \cup {db_log_entry}
           /\ riskVars' # riskVars
           /\ UNCHANGED chatVars

\* reject_risk_log_entry
reject_risk_log_entry(log_entry_id) ==
    \E e \in get_risk_log_entry(log_entry_id) :
        /\ e.entry_status # "Rejected"
        /\ risk_log_entries' = (risk_log_entries \ {e}) \cup {[e EXCEPT !.entry_status = "Rejected"]}
        /\ UNCHANGED <<risks, chatVars>>

\* delete_risk_log_entry
delete_risk_log_entry(log_entry_id) ==
    \E e \in get_risk_log_entry(log_entry_id) :
        /\ risk_log_entries' = risk_log_entries \ {e}
        /\ UNCHANGED <<risks, chatVars>>

\* the log entry ids the calls below name
KnownLogEntryIds == {<<"LOG", id, n>> : id \in RiskIds, n \in 1..MaxLogEntries}

NextRisk ==
    \/ \E id \in RiskIds \cup {NoRiskId}, i \in RiskImpacts, l \in RiskLikelihoods :
            create_risk(id, i, l, SuppliedExposure)
    \/ \E id \in RiskIds, i \in RiskImpacts \cup {Unset}, l \in RiskLikelihoods \cup {Unset},
          x \in {SuppliedExposure, UnsetExposure} :
            update_risk(id, i, l, x)
    \/ \E id \in RiskIds : delete_risk(id)
    \/ \E id \in RiskIds, i \in LogImpacts \cup {PyNone} :
            create_risk_log_entry(id, "Draft", i, PyNone)
    \/ \E k \in KnownLogEntryIds, i \in LogImpacts \cup {PyNone} :
            update_risk_log_entry(k, i, Unset)
    \/ \E k \in KnownLogEntryIds : approve_risk_log_entry(k)
    \/ \E k \in KnownLogEntryIds : reject_risk_log_entry(k)
    \/ \E k \in KnownLogEntryIds : delete_risk_log_entry(k)

InitWith(e) ==
    /\ sys_stdout = OrigStream
    /\ db_risks = InitialRisks
    /\ env = e
    /\ last_ns = [L |-> EmptyLocals, G |-> {}]
    /\ pc = [w \in Workers |-> "idle"]
    /\ question = [w \in Workers |-> NoQuestion]
    /\ show_code = [w \in Workers |-> FALSE]
    /\ session_new = [w \in Workers |-> {}]
    /\ attempt = [w \in Workers |-> 0]
    /\ prompt = [w \in Workers |-> NoPrompt]
    /\ content = [w \in Workers |-> <<>>]
    /\ full_content = [w \in Workers |-> <<>>]
    /\ exec_res = [w \in Workers |-> NoExecRes]
    /\ gen_calls = [w \in Workers |-> 0]
    /\ llm_calls = [w \in Workers |-> 0]
    /\ exec_runs = [w \in Workers |-> 0]
    /\ outcome = [w \in Workers |-> <<>>]
    /\ code = [w \in Workers |-> <<>>]
    /\ ip = [w \in Workers |-> 0]
    /\ user_request = [w \in Workers |-> NoQuestion]
    /\ SAFE_LOCALS = [w \in Workers |-> EmptyLocals]
    /\ SAFE_GLOBALS = [w \in Workers |-> {}]
    /\ stdout_buf = [w \in Workers |-> <<>>]
    /\ old_stdout = [w \in Workers |-> OrigStream]
    /\ err_text = [w \in Workers |-> None]
    /\ pending = [w \in Workers |-> FALSE]
    /\ http = [w \in Workers |-> ""]
    /\ detail = [w \in Workers |-> ""]
    /\ response = [w \in Workers |-> NoResponse]
    /\ dropdown_values = SeededDropdowns
    /\ schema_blocks = [w \in Workers |-> <<>>]
    /\ risks = [id \in RiskIds |-> NoRisk]
    /\ risk_log_entries = {}

\* one request at a time, the LLM free to answer any text
Init == InitWith([pool |-> 1, texts |-> LLMTexts, questions |-> Questions])
\* requests handled concurrently by the thread pool
InitConc ==
    InitWith([pool |-> MaxInFlight, texts |-> ConcurrentTexts, questions |-> ConcurrentQuestions])

(***************************************************************************)
(* Helpers of the actions                                                  *)
(***************************************************************************)
\* print(): the write goes to whatever sys.stdout is at that moment
CanPrint(k) ==
    sys_stdout[1] = "buf" => Len(stdout_buf[sys_stdout[2]]) + k <= MaxBuf
Printed(chunks) ==
    IF sys_stdout[1] = "buf"
    THEN [stdout_buf EXCEPT ![sys_stdout[2]] = @ \o chunks]
    ELSE stdout_buf

\* a diagnostic line of the pipeline
Diag(w, txt) == <<Chunk(txt, w, "pipeline"), NL(w, "pipeline")>>

\* the buffer of w's call is garbage once the call has read it
Retire(stream, w) == IF stream = BufStream(w) THEN DeadStream ELSE stream

\* chat: except Exception as e -> HTTPException(500, f"Internal server error: {e}")
Raise500_as_answer(w, msg) ==
    /\ pc' = [pc EXCEPT ![w] = "done"]
    /\ http' = [http EXCEPT ![w] = "200"]
    /\ detail' = [detail EXCEPT ![w] = msg]
    /\ response' = [response EXCEPT ![w] =
                      [NoResponse EXCEPT !.answer = Str(msg),
                                         !.status = Str("error"),
                                         !.error = Str(msg)]]
Raise500(w, msg) ==
    /\ pc' = [pc EXCEPT ![w] = "done"]
    /\ http' = [http EXCEPT ![w] = "500"]
    /\ detail' = [detail EXCEPT ![w] = msg]
    /\ UNCHANGED response

(***************************************************************************)
(* chat endpoint: request validation                                       *)
(***************************************************************************)
\* a worker of the thread pool takes a request
Receive(w, q, sc) ==
    /\ pc[w] = "idle"
    /\ Cardinality({v \in Workers : pc[v] # "idle"}) < env.pool
    /\ q \in env.questions
    /\ pc' = [pc EXCEPT ![w] = "validate"]
    /\ question' = [question EXCEPT ![w] = q]
    /\ show_code' = [show_code EXCEPT ![w] = sc]
    /\ UNCHANGED <<riskVars, refVars, globalVars, session_new, agentVars, countVars, nsVars, execVars, outVars>>

\* ChatRequest.question: min_length=1, max_length=1000
FieldRejects(q) == RunLen(q) < QuestionMinLength \/ RunLen(q) > QuestionMaxLength

\* pydantic validates the body before the handler runs
ValidateRequest(w) ==
    /\ pc[w] = "validate"
    /\ IF FieldRejects(question[w])
       THEN /\ pc' = [pc EXCEPT ![w] = "done"]
            /\ http' = [http EXCEPT ![w] = "422"]
            /\ detail' = [detail EXCEPT ![w] = "validation error"]
       ELSE /\ pc' = [pc EXCEPT ![w] = "handler"]
            /\ UNCHANGED <<http, detail>>
    /\ UNCHANGED <<riskVars, refVars, globalVars, reqVars, session_new, agentVars, countVars, nsVars, execVars, response>>

\* if not request.question or len(request.question.strip()) == 0
QuestionRejected_nostrip(q) == RunLen(q) = 0
QuestionRejected(q) == RunLen(q) = 0 \/ RunLen(StripRuns(q)) = 0

ValidateQuestion(w) ==
    /\ pc[w] = "handler"
    /\ IF QuestionRejected(question[w])
       THEN /\ pc' = [pc EXCEPT ![w] = "done"]
            /\ http' = [http EXCEPT ![w] = "400"]
            /\ detail' = [detail EXCEPT ![w] = "Question cannot be empty"]
       ELSE /\ pc' = [pc EXCEPT ![w] = "agent"]
            /\ UNCHANGED <<http, detail>>
    /\ UNCHANGED <<riskVars, refVars, globalVars, reqVars, session_new, agentVars, countVars, nsVars, execVars, response>>

(***************************************************************************)
(* risk_sme_agent and generate_llm_code                                    *)
(***************************************************************************)
\* 1) Show the question
AgentStart(w) ==
    /\ pc[w] = "agent"
    /\ CanPrint(2)
    /\ stdout_buf' = Printed(Diag(w, "USER QUESTION"))
    /\ attempt' = [attempt EXCEPT ![w] = 1]
    /\ prompt' = [prompt EXCEPT ![w] =
                    [kind |-> "question", question |-> question[w], error |-> None, code |-> <<>>]]
    /\ pc' = [pc EXCEPT ![w] = "gen"]
    /\ UNCHANGED <<riskVars, refVars, globalVars, reqVars, session_new, content, full_content, exec_res,
                   countVars, nsVars, code, ip, user_request, old_stdout, err_text, pending, outVars>>

\* generate_llm_code: schema_block = risk_utils.build_schema_block(session)
BuildSchema(w) ==
    /\ pc[w] = "gen"
    /\ gen_calls' = [gen_calls EXCEPT ![w] = @ + 1]
    /\ schema_blocks' = [schema_blocks EXCEPT ![w] =
                           Append(@, get_dropdown_values(dropdown_values))]
    /\ pc' = [pc EXCEPT ![w] = "llm"]
    /\ UNCHANGED <<riskVars, dropdown_values, globalVars, reqVars, session_new, agentVars, llm_calls, exec_runs, outcome,
                   nsVars, execVars, outVars>>

\* the store cannot be read: the exception reaches the handler
SchemaFault(w) ==
    /\ pc[w] = "gen"
    /\ gen_calls' = [gen_calls EXCEPT ![w] = @ + 1]
    /\ Raise500(w, "store unreachable")
    /\ UNCHANGED <<riskVars, refVars, globalVars, reqVars, session_new, agentVars, llm_calls, exec_runs, outcome,
                   nsVars, execVars>>

\* resp = client.messages.create(...); content = resp.content[0].text or ""
LLMCall(w, t) ==
    /\ pc[w] = "llm"
    /\ t \in env.texts
    /\ llm_calls' = [llm_calls EXCEPT ![w] = @ + 1]
    /\ content' = [content EXCEPT ![w] = t]
    /\ full_content' = [full_content EXCEPT ![w] = IF attempt[w] = 1 THEN t ELSE @]
    /\ pc' = [pc EXCEPT ![w] = "execute"]
    /\ UNCHANGED <<riskVars, refVars, globalVars, reqVars, session_new, attempt, prompt, exec_res,
                   gen_calls, exec_runs, outcome, nsVars, execVars, outVars>>

\* the LLM call raises (network, provider error)
LLMFail(w) ==
    /\ pc[w] = "llm"
    /\ llm_calls' = [llm_calls EXCEPT ![w] = @ + 1]
    /\ Raise500(w, "llm call failed")
    /\ UNCHANGED <<riskVars, refVars, globalVars, reqVars, session_new, agentVars, gen_calls, exec_runs, outcome,
                   nsVars, execVars>>

(***************************************************************************)
(* execute_generated_code                                                  *)
(***************************************************************************)
\* code = _extract_execute_block(code_or_content) raises RuntimeError
ExtractFails(w) ==
    /\ pc[w] = "execute"
    /\ ExtractRaises(content[w])
    /\ Raise500(w, "Empty content passed to code executor.")
    /\ UNCHANGED <<riskVars, refVars, globalVars, reqVars, session_new, agentVars, countVars, nsVars, execVars>>

\* err_text = None (line 265), given what the previous call left in it
InitialErrText_kept(prev) == prev
InitialErrText(prev) == None

\* lines 216-265: extract, build the namespace, redirect sys.stdout
ExecBegin(w) ==
    /\ pc[w] = "execute"
    /\ ~ExtractRaises(content[w])
    /\ code' = [code EXCEPT ![w] = ExtractExecuteBlock(content[w])]
    /\ user_request' = [user_request EXCEPT ![w] = question[w]]
    /\ SAFE_GLOBALS' = [SAFE_GLOBALS EXCEPT ![w] = ExecGlobals(NewGlobals(last_ns.G))]
    /\ SAFE_LOCALS' = [SAFE_LOCALS EXCEPT ![w] = NewLocals(last_ns.L)]
    /\ stdout_buf' = [stdout_buf EXCEPT ![w] = <<>>]
    /\ old_stdout' = [old_stdout EXCEPT ![w] = sys_stdout]
    /\ sys_stdout' = BufStream(w)
    /\ err_text' = [err_text EXCEPT ![w] = InitialErrText(@)]
    /\ pending' = [pending EXCEPT ![w] = FALSE]
    /\ ip' = [ip EXCEPT ![w] = 1]
    /\ exec_runs' = [exec_runs EXCEPT ![w] = @ + 1]
    /\ pc' = [pc EXCEPT ![w] = "exec"]
    /\ UNCHANGED <<riskVars, refVars, db_risks, env, last_ns, reqVars, session_new, agentVars,
                   gen_calls, llm_calls, outcome, outVars>>

\* exec(code, SAFE_GLOBALS, SAFE_LOCALS), one statement at a time;
\* except Exception: err_text = traceback.format_exc()
ExecStep(w) ==
    /\ pc[w] = "exec"
    /\ LET prog == code[w]
           L == SAFE_LOCALS[w]
           G == SAFE_GLOBALS[w]
           idle == [exc |-> "", base |-> FALSE, L |-> L, G |-> G, out |-> FALSE, db |-> "none"]
           r == IF ~Compiles(prog) THEN [idle EXCEPT !.exc = "SyntaxError"]
                ELSE IF ip[w] > Len(prog) THEN idle
                ELSE StmtResult(prog[ip[w]], L, G)
           finished == r.exc # "" \/ ip[w] >= Len(prog)
       IN /\ r.out => CanPrint(2)
          /\ SAFE_LOCALS' = [SAFE_LOCALS EXCEPT ![w] = r.L]
          /\ SAFE_GLOBALS' = [SAFE_GLOBALS EXCEPT ![w] = r.G]
          /\ stdout_buf' = IF r.out THEN Printed(<<Chunk("LOG", w, "program"), NL(w, "program")>>)
                           ELSE stdout_buf
          /\ session_new' = [session_new EXCEPT ![w] =
                               CASE r.db = "add" -> @ \cup {AddedRisk}
                                 [] r.db = "commit" -> {}
                                 [] OTHER -> @]
          /\ db_risks' = IF r.db = "commit" THEN db_risks \cup session_new[w] ELSE db_risks
          /\ err_text' = [err_text EXCEPT ![w] =
                            IF r.exc # "" /\ ~r.base THEN FormatExc(r.exc) ELSE @]
          /\ pending' = [pending EXCEPT ![w] = r.base]
          /\ ip' = [ip EXCEPT ![w] = @ + 1]
          /\ pc' = [pc EXCEPT ![w] = IF finished THEN "exec_finally" ELSE "exec"]
    /\ UNCHANGED <<riskVars, refVars, sys_stdout, env, last_ns, reqVars, agentVars, countVars, code,
                   user_request, old_stdout, outVars>>

\* finally: sys.stdout = _old_stdout
RestoreStdout_on_success(old, cur, raised) == IF raised THEN cur ELSE old
RestoreStdout(old, cur, raised) == old

ExecFinally(w) ==
    /\ pc[w] = "exec_finally"
    /\ LET restored == RestoreStdout(old_stdout[w], sys_stdout,
                                     pending[w] \/ err_text[w] # None)
       IN IF pending[w]
          THEN \* the exception leaves execute_generated_code, the agent and the handler
               /\ sys_stdout' = Retire(restored, w)
               /\ old_stdout' = [v \in Workers |->
                                   IF v = w THEN OrigStream ELSE Retire(old_stdout[v], w)]
               /\ stdout_buf' = [stdout_buf EXCEPT ![w] = <<>>]
               /\ last_ns' = [L |-> SAFE_LOCALS[w], G |-> SAFE_GLOBALS[w]]
               /\ SAFE_LOCALS' = [SAFE_LOCALS EXCEPT ![w] = EmptyLocals]
               /\ SAFE_GLOBALS' = [SAFE_GLOBALS EXCEPT ![w] = {}]
               /\ outcome' = [outcome EXCEPT ![w] = Append(@, "base_exception")]
               /\ pc' = [pc EXCEPT ![w] = "done"]
               /\ http' = [http EXCEPT ![w] = "unhandled"]
          ELSE /\ sys_stdout' = restored
               /\ pc' = [pc EXCEPT ![w] = "exec_return"]
               /\ UNCHANGED <<old_stdout, stdout_buf, last_ns, nsVars, outcome, http>>
    /\ UNCHANGED <<riskVars, refVars, db_risks, env, reqVars, session_new, agentVars,
                   gen_calls, llm_calls, exec_runs, code, ip, user_request,
                   err_text, pending, detail, response>>

\* lines 274-287: the artifacts read back from the buffer and from SAFE_LOCALS
ExecResult_stdout_fallback(c, buf, err, L) ==
    [code |-> c,
     stdout |-> StripChunks(buf),
     error |-> err,
     answer |-> PyOr(PyOr(PyOr(DictGet(L, "answer_text"), DictGet(L, "answer_rows")),
                          DictGet(L, "answer_json")),
                     IF StripChunks(buf) = <<>> THEN None ELSE Str(StripChunks(buf)[1].txt)),
     status |-> DictGetOr(L, "STATUS", Str("unknown")),
     answer_rows |-> DictGet(L, "answer_rows")]
ExecResult_rows_first(c, buf, err, L) ==
    [code |-> c,
     stdout |-> StripChunks(buf),
     error |-> err,
     answer |-> PyOr(PyOr(DictGet(L, "answer_rows"), DictGet(L, "answer_text")),
                     DictGet(L, "answer_json")),
     status |-> DictGetOr(L, "STATUS", Str("unknown")),
     answer_rows |-> DictGet(L, "answer_rows")]
ExecResult(c, buf, err, L) ==
    [code |-> c,
     stdout |-> StripChunks(buf),
     error |-> err,
     answer |-> PyOr(PyOr(DictGet(L, "answer_text"), DictGet(L, "answer_rows")),
                     DictGet(L, "answer_json")),
     status |-> DictGetOr(L, "STATUS", Str("unknown")),
     answer_rows |-> DictGet(L, "answer_rows")]

\* where the agent goes after an execution: if exec_res["error"] (line 348)
\* is tested once, after the first execution only
AfterExec_loop(a, res) ==
    IF Truthy(res.error) THEN "retry" ELSE IF a = 1 THEN "show" ELSE "retry_done"
AfterExec_retry_on_unknown(a, res) ==
    IF a = 1
    THEN (IF Truthy(res.error) \/ res.status \in {Str("unknown"), Str("error")}
          THEN "retry" ELSE "show")
    ELSE "retry_done"
AfterExec(a, res) ==
    IF a = 1 THEN (IF Truthy(res.error) THEN "retry" ELSE "show") ELSE "retry_done"

ExecReturn(w) ==
    /\ pc[w] = "exec_return"
    /\ LET res == ExecResult(code[w], stdout_buf[w], err_text[w], SAFE_LOCALS[w])
       IN /\ exec_res' = [exec_res EXCEPT ![w] = res]
          /\ outcome' = [outcome EXCEPT ![w] =
                           Append(@, IF err_text[w] = None THEN "ok" ELSE "exception")]
          /\ pc' = [pc EXCEPT ![w] = AfterExec(attempt[w], res)]
    /\ sys_stdout' = Retire(sys_stdout, w)
    /\ old_stdout' = [v \in Workers |->
                        IF v = w THEN OrigStream ELSE Retire(old_stdout[v], w)]
    /\ stdout_buf' = [stdout_buf EXCEPT ![w] = <<>>]
    /\ last_ns' = [L |-> SAFE_LOCALS[w], G |-> SAFE_GLOBALS[w]]
    /\ SAFE_LOCALS' = [SAFE_LOCALS EXCEPT ![w] = EmptyLocals]
    /\ SAFE_GLOBALS' = [SAFE_GLOBALS EXCEPT ![w] = {}]
    /\ UNCHANGED <<riskVars, refVars, db_risks, env, reqVars, session_new, attempt, prompt,
                   content, full_content, gen_calls, llm_calls, exec_runs,
                   code, ip, user_request, err_text, pending, outVars>>

(***************************************************************************)
(* risk_sme_agent: the retry block and the report                          *)
(***************************************************************************)
\* lines 349-384: the corrective prompt built from the failed attempt
\* retry_prompt (lines 353-384): the error, the question, the failed code
RetryPromptOf_without_code(q, res) ==
    [kind |-> "retry", question |-> q, error |-> res.error, code |-> <<>>]
RetryPromptOf(q, res) ==
    [kind |-> "retry", question |-> q, error |-> res.error, code |-> res.code]

RetryPrompt(w) ==
    /\ pc[w] = "retry"
    /\ CanPrint(2)
    /\ stdout_buf' = Printed(Diag(w, "RETRY: First attempt failed"))
    /\ prompt' = [prompt EXCEPT ![w] = RetryPromptOf(question[w], exec_res[w])]
    /\ attempt' = [attempt EXCEPT ![w] = 2]
    /\ pc' = [pc EXCEPT ![w] = "gen"]
    /\ UNCHANGED <<riskVars, refVars, globalVars, reqVars, session_new, content, full_content, exec_res,
                   countVars, nsVars, code, ip, user_request, old_stdout, err_text, pending, outVars>>

RETRY_SEPARATOR == "---RETRY ATTEMPT---"

\* lines 400-410: both raw texts are retained
RetryDone(w) ==
    /\ pc[w] = "retry_done"
    /\ CanPrint(2)
    /\ full_content' = [full_content EXCEPT ![w] = @ \o <<RETRY_SEPARATOR>> \o content[w]]
    /\ stdout_buf' = Printed(Diag(w, IF Truthy(exec_res[w].error)
                                     THEN "RETRY FAILED" ELSE "RETRY SUCCEEDED"))
    /\ pc' = [pc EXCEPT ![w] = "show"]
    /\ UNCHANGED <<riskVars, refVars, globalVars, reqVars, session_new, attempt, prompt, content, exec_res,
                   countVars, nsVars, code, ip, user_request, old_stdout, err_text, pending, outVars>>

\* lines 412-447: 4) Show results, 5) Return artifacts
ShowResults(w) ==
    /\ pc[w] = "show"
    /\ CanPrint(2)
    /\ stdout_buf' = Printed(Diag(w, IF Truthy(exec_res[w].error)
                                     THEN "EXECUTION ERROR" ELSE "ANSWER"))
    /\ pc' = [pc EXCEPT ![w] = "respond"]
    /\ UNCHANGED <<riskVars, refVars, globalVars, reqVars, session_new, agentVars, countVars, nsVars,
                   code, ip, user_request, old_stdout, err_text, pending, outVars>>

(***************************************************************************)
(* chat endpoint: the response                                             *)
(***************************************************************************)
ERROR_ANSWER == "An error occurred while processing your question. Please try rephrasing or contact support."
NO_ANSWER == "No answer generated"

\* chat, lines 67-94
BuildResponse_code_always(res, sc) ==
    LET c == Text(res.code)
    IN IF Truthy(res.error)
       THEN [answer |-> Str(ERROR_ANSWER),
             status |-> Str("error"),
             answer_rows |-> None,
             code |-> c,
             error |-> res.error,
             execution_log |-> res.stdout]
       ELSE [answer |-> IF Truthy(res.answer) THEN PyStr(res.answer) ELSE Str(NO_ANSWER),
             status |-> res.status,
             answer_rows |-> res.answer_rows,
             code |-> c,
             error |-> None,
             execution_log |-> res.stdout]
BuildResponse_no_error_branch(res, sc) ==
    LET c == IF sc THEN Text(res.code) ELSE NoText
    IN [answer |-> IF Truthy(res.answer) THEN PyStr(res.answer) ELSE Str(NO_ANSWER),
        status |-> res.status,
        answer_rows |-> res.answer_rows,
        code |-> c,
        error |-> res.error,
        execution_log |-> res.stdout]
BuildResponse_status_passthrough(res, sc) ==
    LET c == IF sc THEN Text(res.code) ELSE NoText
    IN IF Truthy(res.error)
       THEN [answer |-> Str(ERROR_ANSWER),
             status |-> res.status,
             answer_rows |-> None,
             code |-> c,
             error |-> res.error,
             execution_log |-> res.stdout]
       ELSE [answer |-> IF Truthy(res.answer) THEN PyStr(res.answer) ELSE Str(NO_ANSWER),
             status |-> res.status,
             answer_rows |-> res.answer_rows,
             code |-> c,
             error |-> None,
             execution_log |-> res.stdout]
BuildResponse(res, sc) ==
    LET c == IF sc THEN Text(res.code) ELSE NoText
    IN IF Truthy(res.error)
       THEN [answer |-> Str(ERROR_ANSWER),
             status |-> Str("error"),
             answer_rows |-> None,
             code |-> c,
             error |-> res.error,
             execution_log |-> res.stdout]
       ELSE [answer |-> IF Truthy(res.answer) THEN PyStr(res.answer) ELSE Str(NO_ANSWER),
             status |-> res.status,
             answer_rows |-> res.answer_rows,
             code |-> c,
             error |-> None,
             execution_log |-> res.stdout]

\* the field types of ChatResponse: answer: str, status: str,
\* answer_rows: list[dict] | None, error: str | None
ValidChatResponse_untyped(r) == r.answer.t = "str"
ValidChatResponse(r) ==
    /\ r.answer.t = "str"
    /\ r.status.t = "str"
    /\ r.answer_rows.t \in {"none", "list"}
    /\ r.error.t \in {"none", "str"}

Respond(w) ==
    /\ pc[w] = "respond"
    /\ LET r == BuildResponse(exec_res[w], show_code[w])
       IN IF ValidChatResponse(r)
          THEN /\ response' = [response EXCEPT ![w] = r]
               /\ http' = [http EXCEPT ![w] = "200"]
               /\ pc' = [pc EXCEPT ![w] = "done"]
               /\ UNCHANGED detail
          ELSE Raise500(w, "validation error for ChatResponse")
    /\ UNCHANGED <<riskVars, refVars, globalVars, reqVars, session_new, agentVars, countVars, nsVars, execVars>>

\* the response has been sent; get_db: finally db.close() discards what the
\* session had not committed; the frames of the request are gone
Release(w) ==
    /\ pc[w] = "done"
    /\ pc' = [pc EXCEPT ![w] = "idle"]
    /\ question' = [question EXCEPT ![w] = NoQuestion]
    /\ show_code' = [show_code EXCEPT ![w] = FALSE]
    /\ session_new' = [session_new EXCEPT ![w] = {}]
    /\ attempt' = [attempt EXCEPT ![w] = 0]
    /\ prompt' = [prompt EXCEPT ![w] = NoPrompt]
    /\ content' = [content EXCEPT ![w] = <<>>]
    /\ full_content' = [full_content EXCEPT ![w] = <<>>]
    /\ exec_res' = [exec_res EXCEPT ![w] = NoExecRes]
    /\ gen_calls' = [gen_calls EXCEPT ![w] = 0]
    /\ llm_calls' = [llm_calls EXCEPT ![w] = 0]
    /\ exec_runs' = [exec_runs EXCEPT ![w] = 0]
    /\ outcome' = [outcome EXCEPT ![w] = <<>>]
    /\ code' = [code EXCEPT ![w] = <<>>]
    /\ ip' = [ip EXCEPT ![w] = 0]
    /\ user_request' = [user_request EXCEPT ![w] = NoQuestion]
    /\ err_text' = [err_text EXCEPT ![w] = None]
    /\ pending' = [pending EXCEPT ![w] = FALSE]
    /\ http' = [http EXCEPT ![w] = ""]
    /\ detail' = [detail EXCEPT ![w] = ""]
    /\ response' = [response EXCEPT ![w] = NoResponse]
    /\ schema_blocks' = [schema_blocks EXCEPT ![w] = <<>>]
    /\ UNCHANGED <<riskVars, dropdown_values, globalVars, nsVars, stdout_buf, old_stdout>>

(***************************************************************************)
(* Specifications                                                          *)
(***************************************************************************)
\* the steps of the request worker w handles
RequestStep(w) ==
    \/ ValidateRequest(w)
    \/ ValidateQuestion(w)
    \/ AgentStart(w)
    \/ BuildSchema(w)
    \/ SchemaFault(w)
    \/ \E t \in env.texts : LLMCall(w, t)
    \/ LLMFail(w)
    \/ ExtractFails(w)
    \/ ExecBegin(w)
    \/ ExecStep(w)
    \/ ExecFinally(w)
    \/ ExecReturn(w)
    \/ RetryPrompt(w)
    \/ RetryDone(w)
    \/ ShowResults(w)
    \/ Respond(w)

Next ==
    \E w \in Workers :
        \/ \E q \in Questions, sc \in BOOLEAN : Receive(w, q, sc)
        \/ RequestStep(w)
        \/ Release(w)

Spec == Init /\ [][Next]_vars

SpecConc == InitConc /\ [][Next]_vars

(***************************************************************************)
(* Properties                                                              *)
(***************************************************************************)
StatusEnumeration == {Str("success"), Str("no_results"), Str("invalid_request"), Str("error")}

\* the request of worker w passed both validations and has ended
Ended(w) == pc[w] = "done" /\ http[w] \notin {"400", "422"}

\* the first execution raised an exception that the executor captured
FirstRaised(w) == Len(outcome[w]) >= 1 /\ outcome[w][1] = "exception"

\* C1 (as claimed): when the first execution raises, one whole further
\* generate -> extract -> execute cycle is performed: unless the store
\* fails, the request ends after two LLM calls and two executions.
C1_ExactlyOneFurtherCycle ==
    \A w \in Workers :
        (Ended(w) /\ FirstRaised(w) /\ detail[w] # "store unreachable") =>
            (llm_calls[w] = 2 /\ exec_runs[w] = 2)

\* the corrective generation was cut short: store fault, LLM failure, empty text
RetryAborted(w) ==
    detail[w] \in {"store unreachable", "llm call failed",
                   "Empty content passed to code executor."}

\* C1 (amended): the LLM is called at most twice and the executor runs at
\* most twice per request; when the first execution raises an exception the
\* executor captures, exactly one corrective generation is started, and it
\* is followed by exactly one further execution unless that generation
\* fails or returns empty text (the request then ends with HTTP 500).
C1_BoundedRetry ==
    \A w \in Workers :
        /\ gen_calls[w] <= 2 /\ llm_calls[w] <= 2 /\ exec_runs[w] <= 2
        /\ Len(outcome[w]) <= 2
        /\ (Ended(w) /\ FirstRaised(w)) => gen_calls[w] = 2
        /\ (Ended(w) /\ FirstRaised(w) /\ ~RetryAborted(w)) =>
               (llm_calls[w] = 2 /\ exec_runs[w] = 2 /\ Len(outcome[w]) = 2)
        /\ (Ended(w) /\ FirstRaised(w) /\ RetryAborted(w)) =>
               (http[w] = "500" /\ exec_runs[w] = 1)

\* C1 witness: both attempts raised and the request ended after the second
C1_Witness ==
    \E w \in Workers :
        /\ pc[w] = "done"
        /\ outcome[w] = <<"exception", "exception">>
        /\ llm_calls[w] = 2 /\ exec_runs[w] = 2

\* C2: the status of every returned ChatResponse is one of success,
\* no_results, invalid_request, error.
C2_StatusEnumerated ==
    \A w \in Workers : http[w] = "200" => response[w].status \in StatusEnumeration

\* C3: answer_rows of every returned ChatResponse is null or a list of at
\* most 20 rows.
C3_RowsCapped ==
    \A w \in Workers :
        http[w] = "200" =>
            \/ response[w].answer_rows = None
            \/ response[w].answer_rows.t = "list" /\ response[w].answer_rows.n <= RowCap

\* C4 (as claimed): a request that passes validation and meets no store
\* fault always ends with a ChatResponse.
C4_AlwaysResponse ==
    \A w \in Workers :
        (Ended(w) /\ detail[w] # "store unreachable") => http[w] = "200"

\* the agent returned an execution result to the handler
AgentReturned(w) ==
    /\ exec_runs[w] >= 1
    /\ Len(outcome[w]) = exec_runs[w]
    /\ outcome[w][Len(outcome[w])] # "base_exception"
    /\ FirstRaised(w) => Len(outcome[w]) = 2

\* C4 (amended): a request that passes validation ends with a well-formed
\* ChatResponse exactly when every generation returned non-empty text and
\* the authoritative execution either raised an exception that the executor
\* captured, or finished with STATUS unbound or bound to a string and
\* answer_rows unbound, None or a list of rows; otherwise it ends with HTTP
\* 500 (store fault, LLM failure, empty LLM text, STATUS or answer_rows of
\* another type) or, when the program raises a BaseException such as
\* SystemExit, with an exception no handler of the endpoint catches.
C4_ResponseOrServerError ==
    \A w \in Workers :
        Ended(w) =>
            /\ http[w] \in {"200", "500", "unhandled"}
            /\ http[w] = "200" <=>
                  /\ AgentReturned(w)
                  /\ \/ Truthy(exec_res[w].error)
                     \/ /\ exec_res[w].status.t = "str"
                        /\ exec_res[w].answer_rows.t \in {"none", "list"}
            /\ http[w] = "200" =>
                  /\ response[w].answer.t = "str" /\ response[w].answer.s # ""
                  /\ response[w].status.t = "str"
                  /\ response[w].answer_rows.t \in {"none", "list"}
            /\ http[w] = "unhandled" <=>
                  (outcome[w] # <<>> /\ outcome[w][Len(outcome[w])] = "base_exception")

\* C4 witness: the LLM answered with empty text and the request ended in 500
C4_Witness ==
    \E w \in Workers :
        /\ pc[w] = "done" /\ http[w] = "500"
        /\ content[w] = T_EMPTY_TEXT /\ llm_calls[w] = 1
        /\ detail[w] = "Empty content passed to code executor."

\* C5: no step of a chat request changes the rows of the store.
C5_StoreUnchanged ==
    [][(\E w \in Workers : RequestStep(w)) => db_risks' = db_risks]_vars

\* C6: an executed program cannot import a module or open a file: the
\* names it can reach are the keys of SAFE_GLOBALS only.
C6_NoImportNoOpen ==
    \A w \in Workers :
        SAFE_LOCALS[w]["os"] = Unbound /\ SAFE_LOCALS[w]["fh"] = Unbound

\* a call of execute_generated_code has redirected sys.stdout and not yet
\* passed its finally clause
Capturing(w) == pc[w] \in {"exec", "exec_finally"}

\* C7: handling one call at a time, whenever no call of
\* execute_generated_code is between its redirection and its finally
\* clause, sys.stdout is the stream that was installed before the call,
\* whether the program completed, raised, or its exception escaped.
C7_StdoutRestored ==
    (\A w \in Workers : ~Capturing(w)) => sys_stdout = OrigStream

\* C7 witness: an exception escaped execute_generated_code and sys.stdout
\* is the original stream
C7_Witness ==
    \E w \in Workers :
        /\ http[w] = "unhandled" /\ pending[w]
        /\ stdout_buf[w] = <<>>
        /\ sys_stdout = OrigStream

\* C8: with requests handled concurrently, the execution_log of every
\* response holds only text printed by the program of the same request.
C8_LogIsOwnOutput ==
    \A w \in Workers :
        http[w] = "200" =>
            \A i \in 1..Len(response[w].execution_log) :
                /\ response[w].execution_log[i].by = w
                /\ response[w].execution_log[i].src = "program"

\* C9: every program starts in a namespace without any name an earlier
\* program bound, locally or through a global declaration: a program that
\* only reads such a name ends with a NameError.
C9_FreshNamespace ==
    \A w \in Workers :
        /\ (pc[w] = "exec" /\ ip[w] = 1) =>
               /\ SAFE_LOCALS[w] = EmptyLocals
               /\ SAFE_GLOBALS[w] \cap ProgramGlobalNames = {}
        /\ (pc[w] \in {"exec_finally", "exec_return"}
              /\ code[w] \in {<<S_USE_TMP>>, <<S_USE_GTMP>>}) =>
               err_text[w] = FormatExc("NameError")

\* C9 witness: a program of an earlier request bound tmp and gtmp, and the
\* program of this request, which reads tmp, got a NameError
C9_Witness ==
    \E w \in Workers :
        /\ pc[w] = "exec_finally" /\ attempt[w] = 1
        /\ code[w] = <<S_USE_TMP>>
        /\ last_ns.L["tmp"] # Unbound /\ "gtmp" \in last_ns.G
        /\ err_text[w] = FormatExc("NameError")

\* a question without any non-blank character
BlankQuestion(q) == \A i \in 1..Len(q) : q[i][1] = " "

\* C10: a request whose question is empty or only white space is rejected
\* with a client error; no schema snapshot is built, no LLM call is made
\* and no program is executed for it.
C10_BlankRejectedEarly ==
    \A w \in Workers :
        (pc[w] # "idle" /\ BlankQuestion(question[w])) =>
            /\ pc[w] \in {"validate", "handler", "done"}
            /\ gen_calls[w] = 0 /\ llm_calls[w] = 0 /\ exec_runs[w] = 0
            /\ pc[w] = "done" => http[w] \in {"400", "422"}

\* C10 witness: a question of one blank was rejected by the handler
C10_Witness ==
    \E w \in Workers :
        /\ pc[w] = "done" /\ http[w] = "400"
        /\ question[w] = << <<" ", 1>> >>
        /\ gen_calls[w] = 0 /\ llm_calls[w] = 0 /\ exec_runs[w] = 0

(***************************************************************************)
(* Empty question                                                          *)
(***************************************************************************)
\* C11: a POST whose question is the empty string is answered with HTTP 400.
C11_EmptyQuestion400 ==
    \A w \in Workers :
        (pc[w] = "done" /\ question[w] = <<>>) => http[w] = "400"

(***************************************************************************)
(* The code field                                                          *)
(***************************************************************************)
\* position of the retry separator in the retained raw texts, 0 for none
SeparatorAt(full) ==
    IF \E i \in 1..Len(full) : full[i] = RETRY_SEPARATOR
    THEN CHOOSE i \in 1..Len(full) : full[i] = RETRY_SEPARATOR
    ELSE 0

\* the raw LLM text of the first attempt and of the authoritative attempt,
\* read from full_content
FirstText(full) ==
    IF SeparatorAt(full) = 0 THEN full ELSE SubSeq(full, 1, SeparatorAt(full) - 1)
AuthoritativeText(full) ==
    IF SeparatorAt(full) = 0 THEN full
    ELSE SubSeq(full, SeparatorAt(full) + 1, Len(full))

\* C12: in every returned ChatResponse code is null when show_code is false,
\* on the success path and on the error path alike, and when show_code is
\* true it is exactly the program extracted from the text of the
\* authoritative attempt (the retry's if a retry occurred, else the first).
C12_CodeField ==
    \A w \in Workers :
        http[w] = "200" =>
            /\ (exec_runs[w] = 2) <=> (SeparatorAt(full_content[w]) # 0)
            /\ response[w].code =
                  IF show_code[w]
                  THEN Text(ExtractExecuteBlock(AuthoritativeText(full_content[w])))
                  ELSE NoText

\* C12 witness: a retry occurred, code was asked for, and the code returned
\* is the second program, which differs from the first
C12_Witness ==
    \E w \in Workers :
        /\ http[w] = "200" /\ show_code[w] /\ exec_runs[w] = 2
        /\ response[w].code = Text(ExtractExecuteBlock(T_GOOD))
        /\ FirstText(full_content[w]) = T_UNDEFINED_NAME

(***************************************************************************)
(* exec(code, SAFE_GLOBALS, SAFE_LOCALS) as a function of the program      *)
(***************************************************************************)
\* the statements from position i on, run with locals L and globals G after
\* n prints: the exception that ends the run ("" for none), whether it is a
\* BaseException, the locals left behind and the number of prints made
RECURSIVE RunFrom(_, _, _, _, _)
RunFrom(prog, i, L, G, n) ==
    IF i > Len(prog)
    THEN [exc |-> "", base |-> FALSE, L |-> L, prints |-> n]
    ELSE LET r == StmtResult(prog[i], L, G)
             m == IF r.out THEN n + 1 ELSE n
         IN IF r.exc # ""
            THEN [exc |-> r.exc, base |-> r.base, L |-> r.L, prints |-> m]
            ELSE RunFrom(prog, i + 1, r.L, r.G, m)

\* a program run in the namespace execute_generated_code builds for it
RunProgram(prog) ==
    IF ~Compiles(prog)
    THEN [exc |-> "SyntaxError", base |-> FALSE, L |-> EmptyLocals, prints |-> 0]
    ELSE RunFrom(prog, 1, EmptyLocals, ExecGlobals(SafeGlobalNames), 0)

\* the run of the program in an LLM text
RunText(text) == RunProgram(ExtractExecuteBlock(text))

\* the run raised an exception that "except Exception" captures
Captured(run) == run.exc # "" /\ ~run.base

LLMFailed(w) == detail[w] = "llm call failed"

\* C14 (as claimed): when the LLM generation call fails, on the first
\* generation or on the retry, the request ends with a ChatResponse whose
\* status is "error".
C14_LLMFailureIsErrorAnswer ==
    \A w \in Workers :
        LLMFailed(w) => (http[w] = "200" /\ response[w].status = Str("error"))

\* C14 (amended): when the LLM generation call fails, on the first
\* generation or on the retry, it is not retried: the failed call is the
\* last one of the request, which ends with HTTP 500 carrying the error and
\* without a ChatResponse.
C14_LLMFailureIs500 ==
    \A w \in Workers :
        LLMFailed(w) =>
            /\ pc[w] = "done"
            /\ http[w] = "500" /\ response[w] = NoResponse
            /\ llm_calls[w] = exec_runs[w] + 1
            /\ llm_calls[w] = gen_calls[w]
            /\ llm_calls[w] <= 2

\* C14 witness: the LLM call of the corrective generation failed after the
\* first program raised
C14_Witness ==
    \E w \in Workers :
        /\ LLMFailed(w) /\ llm_calls[w] = 2 /\ exec_runs[w] = 1
        /\ outcome[w] = <<"exception">> /\ http[w] = "500"

(***************************************************************************)
(* Containment of what the program raises                                  *)
(***************************************************************************)
\* C15: whatever the executed program raises, a syntax error included,
\* execute_generated_code does not propagate it: once the program has
\* stopped on an exception, err_text holds the diagnostic, nothing is left
\* pending past the except clause, and the request goes on to a result.
C15_NoPropagation ==
    \A w \in Workers :
        /\ (pc[w] = "exec_finally" /\ RunProgram(code[w]).exc # "") =>
               (err_text[w].t = "str" /\ ~pending[w])
        /\ http[w] # "unhandled"

(***************************************************************************)
(* Printed output and the answer                                           *)
(***************************************************************************)
\* the program with its print statements removed
DropPrints(prog) == SelectSeq(prog, LAMBDA stmt : stmt # S_PRINT)

\* what execute_generated_code returns for a program that prints nothing,
\* as a function of the program alone
QuietResult(prog) ==
    LET run == RunProgram(prog)
    IN ExecResult(prog, <<>>, IF Captured(run) THEN FormatExc(run.exc) ELSE None, run.L)

\* the chunks of a log the program of the request printed
ProgramPrints(log) == {i \in 1..Len(log) : log[i].txt = "LOG" /\ log[i].src = "program"}

\* C16: what the program prints appears in execution_log and in no other
\* field: the answer, status and answer_rows of every returned ChatResponse
\* are those of the same program with its prints removed, and the answer
\* is none of the printed texts.
C16_PrintsOnlyInLog ==
    \A w \in Workers :
        http[w] = "200" =>
            LET prog == ExtractExecuteBlock(content[w])
                quiet == BuildResponse(QuietResult(DropPrints(prog)), show_code[w])
                log == response[w].execution_log
            IN /\ response[w].answer = quiet.answer
               /\ response[w].status = quiet.status
               /\ response[w].answer_rows = quiet.answer_rows
               /\ \A i \in 1..Len(log) : response[w].answer.s # log[i].txt
               /\ Cardinality(ProgramPrints(log)) = RunProgram(prog).prints

\* C16 witness: a program that printed and bound an answer: the print is in
\* the log and the answer is the bound text
C16_Witness ==
    \E w \in Workers :
        /\ http[w] = "200" /\ content[w] = T_GOOD
        /\ ProgramPrints(response[w].execution_log) # {}
        /\ response[w].answer = Str("Found risks")

(***************************************************************************)
(* The error branch of the endpoint                                        *)
(***************************************************************************)
\* C17: whenever the execution result the agent returns carries a non-empty
\* error, the endpoint answers HTTP 200 with status "error" and that error,
\* whatever status and answer the result carries.
C17_ErrorResultIsErrorResponse ==
    \A w \in Workers :
        (pc[w] = "done" /\ AgentReturned(w) /\ Truthy(exec_res[w].error)) =>
            /\ http[w] = "200"
            /\ response[w].status = Str("error")
            /\ response[w].error = exec_res[w].error
            /\ response[w].error # None
            /\ response[w].answer = Str(ERROR_ANSWER)
            /\ response[w].answer_rows = None

\* C17 witness: the returned result carries an error together with status
\* "success" and a bound answer, and the response has status "error"
C17_Witness ==
    \E w \in Workers :
        /\ pc[w] = "done" /\ AgentReturned(w) /\ Truthy(exec_res[w].error)
        /\ exec_res[w].status = Str("success")
        /\ exec_res[w].answer = Str("Found risks")
        /\ http[w] = "200" /\ response[w].status = Str("error")

(***************************************************************************)
(* Exceptions of the agent                                                 *)
(***************************************************************************)
\* the call to risk_sme_agent of the request of worker w raised: the request
\* entered the agent and ended without the agent returning a result
AgentRaised(w) == Ended(w) /\ ~AgentReturned(w)

\* C18: whenever the call to risk_sme_agent raises any exception, the
\* endpoint answers HTTP 500 whose detail mentions the error and returns no
\* ChatResponse.
C18_AgentExceptionIs500 ==
    \A w \in Workers :
        AgentRaised(w) =>
            (http[w] = "500" /\ detail[w] # "" /\ response[w] = NoResponse)

(***************************************************************************)
(* The authoritative attempt                                               *)
(***************************************************************************)
\* what n print statements of the program of worker w leave in its buffer
RECURSIVE PrintedBy(_, _)
PrintedBy(w, n) ==
    IF n = 0 THEN <<>>
    ELSE PrintedBy(w, n - 1) \o <<Chunk("LOG", w, "program"), NL(w, "program")>>

\* what execute_generated_code returns for an LLM text when no other call
\* runs, as a function of the text alone
TextResult(w, text) ==
    LET prog == ExtractExecuteBlock(text)
        run == RunProgram(prog)
    IN ExecResult(prog, PrintedBy(w, run.prints),
                  IF Captured(run) THEN FormatExc(run.exc) ELSE None, run.L)

\* C19: the execution result risk_sme_agent returns, and every response
\* field derived from it, is that of the second attempt whenever a retry
\* occurred and that of the first attempt otherwise: every field is what the
\* authoritative text alone produces, none carries a value of the other
\* attempt.
C19_AuthoritativeResult ==
    \A w \in Workers :
        (pc[w] \in {"show", "respond", "done"} /\ AgentReturned(w)) =>
            LET auth == AuthoritativeText(full_content[w])
            IN /\ (exec_runs[w] = 2) <=> (SeparatorAt(full_content[w]) # 0)
               /\ auth = content[w]
               /\ exec_res[w] = TextResult(w, auth)
               /\ http[w] = "200" =>
                     response[w] = BuildResponse(TextResult(w, auth), show_code[w])

\* C19 witness: the first program bound STATUS and an answer and then
\* raised, the retry's program bound nothing, and the response carries
\* nothing of the first attempt
C19_Witness ==
    \E w \in Workers :
        /\ http[w] = "200" /\ exec_runs[w] = 2
        /\ FirstText(full_content[w]) = T_STATUS_THEN_RAISE
        /\ content[w] = T_BINDS_NOTHING
        /\ response[w].status = Str("unknown")
        /\ response[w].answer = Str(NO_ANSWER)
        /\ response[w].execution_log = <<>>

(***************************************************************************)
(* The status field                                                        *)
(***************************************************************************)
\* C20 (as claimed): the status of a returned ChatResponse is the value the
\* authoritative program bound to STATUS if it bound one, otherwise "error"
\* if an exception was captured, otherwise "unknown"; a program that binds
\* STATUS and then raises yields the bound value.
C20_BoundStatusFirst ==
    \A w \in Workers :
        http[w] = "200" =>
            LET run == RunText(content[w])
            IN response[w].status =
                  IF run.L["STATUS"] # Unbound THEN run.L["STATUS"]
                  ELSE IF Captured(run) THEN Str("error")
                  ELSE Str("unknown")

\* C20 (amended): the status of a returned ChatResponse is "error" if an
\* exception of the authoritative program was captured, whatever the
\* program bound to STATUS before raising; otherwise it is the value the
\* program bound to STATUS if it bound one; otherwise "unknown".
C20_ErrorFirst ==
    \A w \in Workers :
        http[w] = "200" =>
            LET run == RunText(content[w])
            IN response[w].status =
                  IF Captured(run) THEN Str("error")
                  ELSE IF run.L["STATUS"] # Unbound THEN run.L["STATUS"]
                  ELSE Str("unknown")

\* C20 witness: the authoritative program bound STATUS = "success" and then
\* raised, and the response has status "error"
C20_Witness ==
    \E w \in Workers :
        /\ http[w] = "200" /\ content[w] = T_STATUS_THEN_RAISE
        /\ RunText(content[w]).L["STATUS"] = Str("success")
        /\ Captured(RunText(content[w]))
        /\ response[w].status = Str("error")

(***************************************************************************)
(* The answer field                                                        *)
(***************************************************************************)
\* C21 (as claimed): the answer of a returned ChatResponse is the answer
\* string the authoritative program bound if there is one, otherwise the
\* stringified rows if rows were bound, otherwise the fixed fallback
\* literal; also for a program that binds the answer string and then raises.
C21_AnswerFromBindings ==
    \A w \in Workers :
        http[w] = "200" =>
            LET L == RunText(content[w]).L
            IN response[w].answer =
                  IF Truthy(L["answer_text"]) THEN PyStr(L["answer_text"])
                  ELSE IF Truthy(L["answer_rows"]) THEN PyStr(L["answer_rows"])
                  ELSE Str(NO_ANSWER)

\* C21 (amended): the answer of a returned ChatResponse is the fixed error
\* sentence if an exception of the authoritative program was captured,
\* whatever the program bound before raising; otherwise the answer string
\* if a non-empty one was bound, otherwise the stringified rows if a
\* non-empty list was bound, otherwise the stringified answer_json if a
\* non-empty one was bound, otherwise the fixed fallback literal.
C21_AnswerErrorFirst ==
    \A w \in Workers :
        http[w] = "200" =>
            LET run == RunText(content[w])
                L == run.L
            IN response[w].answer =
                  IF Captured(run) THEN Str(ERROR_ANSWER)
                  ELSE IF Truthy(L["answer_text"]) THEN PyStr(L["answer_text"])
                  ELSE IF Truthy(L["answer_rows"]) THEN PyStr(L["answer_rows"])
                  ELSE IF Truthy(L["answer_json"]) THEN PyStr(L["answer_json"])
                  ELSE Str(NO_ANSWER)

\* C21 witness: the authoritative program bound an answer string and then
\* raised, and the answer is the fixed error sentence
C21_Witness ==
    \E w \in Workers :
        /\ http[w] = "200"
        /\ Captured(RunText(content[w]))
        /\ RunText(content[w]).L["answer_text"] = Str("Found risks")
        /\ response[w].answer = Str(ERROR_ANSWER)

(***************************************************************************)
(* The error field                                                         *)
(***************************************************************************)
\* C22: in every returned ChatResponse error is non-null if and only if the
\* execution of the authoritative attempt raised an exception; an exception
\* raised only by the first attempt, followed by a retry that runs without
\* exception, leaves error null.
C22_ErrorIffRaised ==
    \A w \in Workers :
        http[w] = "200" =>
            LET run == RunText(content[w])
            IN /\ (response[w].error # None) <=> (run.exc # "")
               /\ run.exc # "" => response[w].error = FormatExc(run.exc)
               /\ (exec_runs[w] = 2 /\ run.exc = "") => response[w].error = None

\* C22 witness: the first program raised, the retry ran without exception,
\* and the response carries no error
C22_Witness ==
    \E w \in Workers :
        /\ http[w] = "200" /\ exec_runs[w] = 2
        /\ RunText(FirstText(full_content[w])).exc = "ValueError"
        /\ content[w] = T_NO_RESULTS
        /\ response[w].error = None

(***************************************************************************)
(* What triggers the retry                                                 *)
(***************************************************************************)
\* the contract names a program is asked to bind
ContractNames == {"answer_text", "answer_rows", "STATUS"}

\* the first program of the request of worker w ran to completion without
\* raising and bound none of the contract names, or bound STATUS = "error"
\* itself (and no answer_rows that ChatResponse rejects)
QuietContractMiss(w) ==
    /\ pc[w] = "done" /\ exec_runs[w] >= 1
    /\ LET run == RunText(FirstText(full_content[w]))
       IN /\ run.exc = ""
          /\ \/ \A n \in ContractNames : run.L[n] = Unbound
             \/ /\ run.L["STATUS"] = Str("error")
                /\ DictGet(run.L, "answer_rows").t \in {"none", "list"}

MaxTextLen == 3

\* the tokens raw texts are made of: markers, white space, a statement
TextAlphabet == {OPEN, OPEN_UC, CLOSE, WS, "STATUS = 'success'"}

\* every raw text of at most MaxTextLen tokens
BoundedTexts == UNION {[1..n -> TextAlphabet] : n \in 0..MaxTextLen}

\* the LLM answers every call of a run with one text, any of BoundedTexts
InitExtract ==
    \E t \in BoundedTexts :
        InitWith([pool |-> 1, texts |-> {t}, questions |-> Questions])

SpecExtract == InitExtract /\ [][Next]_vars

\* position of the first start marker, 0 for none
FirstOpen(text) ==
    LET S == {i \in 1..Len(text) : IsOpen(text[i])}
    IN IF S = {} THEN 0 ELSE CHOOSE i \in S : \A k \in S : i <= k

\* position of the first end marker after position i, 0 for none
FirstCloseAfter(text, i) ==
    LET S == {j \in (i + 1)..Len(text) : IsClose(text[j])}
    IN IF S = {} THEN 0 ELSE CHOOSE j \in S : \A k \in S : j <= k

\* a text without its leading and trailing white space
Trimmed(s) ==
    LET N == {i \in 1..Len(s) : ~IsSpaceTok(s[i])}
    IN IF N = {} THEN <<>>
       ELSE SubSeq(s, CHOOSE i \in N : \A k \in N : i <= k,
                      CHOOSE j \in N : \A k \in N : j >= k)

\* the program C24 describes for a raw text
ClaimedBlock(text) ==
    LET s == FirstOpen(text)
        e == IF s = 0 THEN 0 ELSE FirstCloseAfter(text, s)
    IN IF e # 0 THEN Trimmed(SubSeq(text, s + 1, e - 1)) ELSE Trimmed(text)

\* C24: for every non-empty raw text the extractor returns a program and
\* does not fail: the trimmed text between the first start marker and the
\* first end marker after it if the text has a start marker followed later
\* by an end marker, the whole trimmed text otherwise; it fails only when
\* the raw text is empty.
C24_ExtractorTotal ==
    \A w \in Workers :
        /\ pc[w] = "execute" => (ExtractRaises(content[w]) <=> content[w] = <<>>)
        /\ detail[w] = "Empty content passed to code executor." => content[w] = <<>>
        /\ pc[w] \in {"exec", "exec_finally", "exec_return"} =>
              /\ content[w] # <<>>
              /\ code[w] = ClaimedBlock(content[w])

\* C24 witness: a text with one start marker and two end markers after it:
\* the program is what lies before the first end marker, nothing
C24_Witness ==
    \E w \in Workers :
        /\ pc[w] = "exec"
        /\ content[w] = <<OPEN, CLOSE, CLOSE>>
        /\ code[w] = <<>>

(***************************************************************************)
(* The corrective request                                                  *)
(***************************************************************************)
\* C25: when the first execution fails, the corrective generation request
\* sent to the LLM contains the original question, the extracted text of the
\* failing program and the diagnostic captured for that failure; the retried
\* program then runs with user_request bound to the original question.
C25_CorrectiveRequest ==
    \A w \in Workers :
        LET first == FirstText(full_content[w])
        IN /\ (attempt[w] = 2 /\ pc[w] \in {"gen", "llm"}) =>
                 /\ prompt[w].kind = "retry"
                 /\ prompt[w].question = question[w]
                 /\ prompt[w].code = ExtractExecuteBlock(first)
                 /\ Captured(RunText(first))
                 /\ prompt[w].error = FormatExc(RunText(first).exc)
           /\ (attempt[w] = 2 /\ pc[w] \in {"exec", "exec_finally", "exec_return"}) =>
                 /\ user_request[w] = question[w]
                 /\ question[w] # NoQuestion

\* C25 witness: the corrective request for a program that raised after
\* binding names is about to be sent
C25_Witness ==
    \E w \in Workers :
        /\ attempt[w] = 2 /\ pc[w] = "llm"
        /\ full_content[w] = T_BIND_THEN_RAISE
        /\ prompt[w].code = <<"tmp = 1", S_GLOBAL, S_RAISE>>
        /\ prompt[w].error = Str("ValueError")
        /\ prompt[w].question = question[w]

(***************************************************************************)
(* Reference values changing between generation calls                      *)
(***************************************************************************)
\* the texts the LLM answers with while reference values change
RefTexts == {T_GOOD, T_UNDEFINED_NAME, T_EMPTY_TEXT}

InitRef == InitWith([pool |-> 1, texts |-> RefTexts, questions |-> Questions])

\* chat requests interleaved with changes of the dropdown_values table
NextRef ==
    \/ Next
    \/ \E i \in DropdownIds : AddDropdownValue(i)
    \/ \E i \in DropdownIds : DeactivateDropdownValue(i)
    \/ \E i \in DropdownIds : ActivateDropdownValue(i)

SpecRef == InitRef /\ [][NextRef]_vars

\* a snapshot lists exactly the active rows of a table, under their category
ListsExactlyActive(snapshot, table) ==
    /\ \A i \in DropdownIds :
          table[i] = "active" <=>
             /\ DropdownCatalogue[i].category \in DOMAIN snapshot
             /\ \E k \in DOMAIN snapshot[DropdownCatalogue[i].category] :
                   snapshot[DropdownCatalogue[i].category][k] = DropdownCatalogue[i].value
    /\ \A c \in DOMAIN snapshot :
          /\ snapshot[c] # <<>>
          /\ Len(snapshot[c]) =
                Cardinality({i \in DropdownIds :
                               table[i] = "active" /\ DropdownCatalogue[i].category = c})

\* C26: however additions, activations and deactivations of dropdown values
\* interleave with chat requests, the schema snapshot of each generation
\* call, first attempt and retry alike, lists exactly the values active in
\* the store when the call is made, grouped by category: nothing of an
\* earlier snapshot is reused and no inactive value is listed.
C26_SnapshotFresh ==
    [][\A w \in Workers :
          (pc[w] = "gen" /\ pc'[w] = "llm") =>
             /\ Len(schema_blocks'[w]) = attempt[w]
             /\ ListsExactlyActive(schema_blocks'[w][attempt[w]], dropdown_values)]_vars

\* C26 witness: between the two generation calls of a request a value was
\* deactivated and another added, and the retry's snapshot differs from the
\* first call's
C26_Witness ==
    \E w \in Workers :
        /\ attempt[w] = 2 /\ pc[w] = "llm" /\ Len(schema_blocks[w]) = 2
        /\ schema_blocks[w][1] = get_dropdown_values(SeededDropdowns)
        /\ schema_blocks[w][2] = ("risk_status" :> <<"Closed">>)
        /\ ListsExactlyActive(schema_blocks[w][2], dropdown_values)

(***************************************************************************)
(* The RiskService alone: the table starts empty and only service calls    *)
(* change it.                                                              *)
(***************************************************************************)
SpecRisk == Init /\ [][NextRisk]_vars

\* C27: after any sequence of RiskService operations, every stored risk's
\* business_disruption_net_exposure is the value of the impact x likelihood
\* lookup for the risk's current impact rating and likelihood rating.
C27_NetExposureCurrent ==
    \A id \in StoredRiskIds :
        risks[id].business_disruption_net_exposure =
            calculate_net_exposure(risks[id].business_disruption_impact_rating,
                                   risks[id].business_disruption_likelihood_rating)

\* an approved log entry changed one rating of a stored risk: the risk
\* carries a rating no create_risk or update_risk call supplied
C27_Witness ==
    \E id \in StoredRiskIds :
        /\ risks[id].business_disruption_impact_rating \in LogImpacts
        /\ risks[id].business_disruption_likelihood_rating \in RiskLikelihoods
        /\ risks[id].business_disruption_net_exposure = <<"Medium", 8>>
        /\ \E e \in risk_log_entries :
              /\ e.risk_id = id
              /\ e.entry_status = "Approved"
              /\ e.new_likelihood_rating = PyNone

\* C29: after any sequence of create_risk (with or without a caller-supplied
\* risk_id) and delete_risk calls within one year, the id _generate_risk_id
\* produces for the next create_risk differs from the id of every stored risk.
C29_GeneratedIdUnique ==
    _generate_risk_id(StoredRiskIds) \notin StoredRiskIds

\* C28: with chat requests handled concurrently, in any interleaving of
\* their execute_generated_code calls, once every started call has passed
\* its finally clause sys.stdout is the stream that was installed before
\* the first of them started: no call's capture buffer remains installed.
C28_StdoutOriginalAfterAll ==
    (/\ \E w \in Workers : exec_runs[w] > 0
     /\ \A w \in Workers : ~Capturing(w))
        => sys_stdout = OrigStream

(***************************************************************************)
(* Progress: every LLM call returns or fails and every program run         *)
(* terminates, so a request that can take a step eventually takes one.     *)
(* Nothing obliges clients to send requests or connections to be released. *)
(***************************************************************************)
SpecLive == Init /\ [][Next]_vars /\ \A w \in Workers : WF_vars(RequestStep(w))

\* a ChatResponse or an HTTP error
FinalOutcomes == {"200", "400", "500"}

\* C30: if every LLM call returns or fails and every program run
\* terminates, every chat request that passed validation eventually ends
\* with a ChatResponse or an HTTP error, after at most two generation calls
\* and two executions, and is never in generation again once the second
\* execution has run.
C30_ReachesFinalOutcome ==
    \A w \in Workers :
        /\ [](gen_calls[w] <= 2 /\ llm_calls[w] <= 2 /\ exec_runs[w] <= 2)
        /\ [](exec_runs[w] = 2 => pc[w] \notin {"gen", "llm", "execute"})
        /\ (pc[w] = "agent") ~> (pc[w] = "done" /\ http[w] \in FinalOutcomes)

====
